---- MODULE Spec2Model ----
(***************************************************************************)
(* Model of the rate-limited access broker of the crawler system           *)
(* (crawlers/utils/rate_limiter.py, crawlers/config/settings.py).          *)
(*                                                                         *)
(* Time is the value of time.time(), an integer number of seconds.  A      *)
(* thread that runs `with limiter.limit(service):` goes through            *)
(*   idle -> (sleep ->) body -> finally -> idle                            *)
(* wait_if_needed computes the wait under the state lock, time.sleep is a  *)
(* suspension during which the clock and the other threads advance, the    *)
(* body is the wrapped operation, and the finally clause is record_call.   *)
(* `ret` holds what the call that ended in the last step returned; a step  *)
(* that ends no call, the passing of time included, clears it.             *)
(***************************************************************************)
EXTENDS Integers, Sequences, FiniteSets, TLC

VARIABLES
    configs,    \* RateLimiter._configs : service -> RateLimitConfig
    states,     \* RateLimiter._states  : service -> timestamps (created lazily)
    now,        \* time.time()
    threads,    \* thread -> position inside limit() and the locals it holds
    ret,        \* the call that returned in the last step, and what it returned
    custom,     \* history: the `configs` argument the constructor was given
    hist,       \* history: every timestamp ever appended, per service
    limitDone,  \* history: completed limit() invocations, per service
    directRec   \* history: direct record_call() invocations, per service

\* GitHubCloner (crawlers/cloners/github_cloner.py)
VARIABLES
    fs,         \* the filesystem under output_dir : local path -> content
    stack,      \* the call stack of the running clone_repo / update_repo
    run,        \* history: what the running (or last) invocation has done
    outcomes    \* history: how each finished invocation ended, oldest first

\* The retry policy around fetch_page (crawlers/utils/helpers.py)
VARIABLES
    retry,      \* the tenacity retry state of the running fetch_page call
    fetched     \* history: how each finished fetch_page call ended

\* The batch runner (crawlers/cloners/clone_all.py) and get_status_summary
VARIABLES
    batch,      \* the running (or last) clone_all_repos call
    summarised  \* a list of RepoInfo and the summary get_status_summary made of it

\* Concurrent clone_repo / update_repo calls on one GitHubCloner
VARIABLES
    attempts    \* thread -> the call stack and history of its sync attempt

\* The dataset downloaders (crawlers/downloaders)
VARIABLES
    dsets,      \* dataset directory -> what it holds
    dl,         \* the running (or last) download_dataset call
    dlLog       \* history: every finished download_dataset call

\* get_rate_limiter (crawlers/utils/rate_limiter.py)
VARIABLES
    globalLimiter,  \* _global_limiter: None or an instance
    callers,        \* thread -> position inside get_rate_limiter and its locals
    instances       \* instance -> the calls recorded on it

limiterVars == <<configs, states, now, threads, ret, custom, hist, limitDone, directRec>>
syncVars == <<fs, stack, run, outcomes>>
retryVars == <<retry, fetched>>
batchVars == <<batch, summarised>>
concVars == <<attempts>>
dlVars == <<dsets, dl, dlLog>>
singletonVars == <<globalLimiter, callers, instances>>
restVars == <<batchVars, concVars, dlVars, singletonVars>>

vars == <<configs, states, now, threads, ret, custom, hist, limitDone, directRec,
          fs, stack, run, outcomes, retry, fetched,
          batch, summarised, attempts, dsets, dl, dlLog,
          globalLimiter, callers, instances>>

----------------------------------------------------------------------------
(* Bounds of the model *)

MaxTime == 2        \* the clock runs from 0 to MaxTime
MaxOps == 3         \* calls recorded or in flight, over all services
MaxCalls == 1       \* largest `calls` of a constructor-supplied config
MaxBurst == 1       \* largest `burst` of a constructor-supplied config
MaxPeriod == 2      \* largest `period` of a constructor-supplied config
NThreads == 2       \* threads of the concurrent specification

----------------------------------------------------------------------------
(* settings.RATE_LIMITS and RateLimitConfig *)

RateLimitConfig(c, p, b) == [calls |-> c, period |-> p, burst |-> b]

RATE_LIMITS ==
    [s \in {"github", "web_scraper", "kaggle", "huggingface"} |->
        CASE s = "github" -> [calls |-> 30, period |-> 60]
          [] s = "web_scraper" -> [calls |-> 10, period |-> 60]
          [] s = "kaggle" -> [calls |-> 5, period |-> 60]
          [] s = "huggingface" -> [calls |-> 10, period |-> 60]]

\* The services the callers of the model use; settings.RATE_LIMITS knows
\* neither, the constructor may be given a config for the first.
Services == {"alpha", "beta"}

\* The scenario of the specification: 2 calls per 10 seconds, no burst.
ScenarioConfig == RateLimitConfig(2, 10, 0)

\* The configs a caller passes to the constructor: the smallest and the
\* largest value of each field, and the scenario.
CfgSet ==
    {RateLimitConfig(c, p, b) : c \in {1, MaxCalls}, p \in {1, MaxPeriod}, b \in {0, MaxBurst}}
        \cup {ScenarioConfig}

\* The config a caller passes for web_scraper.
FallbackCfgSet == {RateLimitConfig(1, MaxPeriod, 0)}

\* The `configs` argument of RateLimiter.__init__: None (the empty mapping)
\* or a mapping of some services to configs.
CtorInputs ==
    {f \in UNION {[D -> CfgSet \cup FallbackCfgSet] : D \in SUBSET {"web_scraper", "alpha"}} :
        "web_scraper" \in DOMAIN f =>
            /\ f["web_scraper"] \in FallbackCfgSet
            /\ "alpha" \in DOMAIN f => f["alpha"] = RateLimitConfig(1, 1, 1)}

\* RateLimiter.__init__: the settings first, then the caller's overrides.
InitConfigs(given) ==
    [s \in DOMAIN RATE_LIMITS \cup DOMAIN given |->
        IF s \in DOMAIN given
            THEN given[s]
            ELSE RateLimitConfig(RATE_LIMITS[s].calls, RATE_LIMITS[s].period, 0)]

----------------------------------------------------------------------------
(* Pure helpers of RateLimiter *)

\* _get_config: the service's config, web_scraper's when it has none.
GetConfigMutHardDefault(cfgs, service) ==
    IF service \notin DOMAIN cfgs
        THEN RateLimitConfig(10, 60, 0)
        ELSE cfgs[service]

GetConfig(cfgs, service) ==
    IF service \notin DOMAIN cfgs
        THEN IF "web_scraper" \in DOMAIN cfgs
                THEN cfgs["web_scraper"]
                ELSE RateLimitConfig(10, 60, 0)
        ELSE cfgs[service]

\* _get_state: the service's state, created empty on first access.
GetState(sts, service) ==
    IF service \in DOMAIN sts
        THEN sts
        ELSE [s \in DOMAIN sts \cup {service} |->
                IF s = service THEN <<>> ELSE sts[s]]

\* _cleanup_old_timestamps: keep the timestamps ts > time.time() - period.
CleanupMutInclusive(ts, config, t) ==
    LET cutoff == t - config.period
        Kept(x) == x >= cutoff
    IN SelectSeq(ts, Kept)

CleanupOldTimestamps(ts, config, t) ==
    LET cutoff == t - config.period
        Kept(x) == x > cutoff
    IN SelectSeq(ts, Kept)

\* min(state.timestamps)
RECURSIVE MinOf(_)
MinOf(ts) ==
    IF Len(ts) = 1 THEN ts[1]
    ELSE LET m == MinOf(Tail(ts)) IN IF ts[1] < m THEN ts[1] ELSE m

Max0(x) == IF x > 0 THEN x ELSE 0

MaxCallsOf(config) == config.calls + config.burst

\* The body of can_proceed under the lock, on the cleaned timestamps.
CanProceedOn(cleaned, config) == Len(cleaned) < MaxCallsOf(config)

\* max(state.timestamps)
RECURSIVE MaxOf(_)
MaxOf(ts) ==
    IF Len(ts) = 1 THEN ts[1]
    ELSE LET m == MaxOf(Tail(ts)) IN IF ts[1] > m THEN ts[1] ELSE m

\* The body of get_wait_time under the lock, on the cleaned timestamps.
WaitTimeOnMutOffByOne(cleaned, config, t) ==
    IF Len(cleaned) <= MaxCallsOf(config)
        THEN 0
        ELSE Max0((MinOf(cleaned) + config.period) - t)

WaitTimeOnMutNewest(cleaned, config, t) ==
    IF Len(cleaned) < MaxCallsOf(config)
        THEN 0
        ELSE Max0((MaxOf(cleaned) + config.period) - t)

WaitTimeOn(cleaned, config, t) ==
    IF Len(cleaned) < MaxCallsOf(config)
        THEN 0
        ELSE Max0((MinOf(cleaned) + config.period) - t)

\* The body of get_stats under the lock, on the cleaned timestamps.
StatsOn(cleaned, config, t) ==
    [calls_made |-> Len(cleaned),
     calls_remaining |-> Max0(MaxCallsOf(config) - Len(cleaned)),
     max_calls |-> MaxCallsOf(config),
     period |-> config.period,
     reset_in |-> IF cleaned # <<>>
                    THEN Max0((MinOf(cleaned) + config.period) - t)
                    ELSE 0]

\* state.timestamps = [...]: the cleaned list replaces the stored one.
StoreCleanedMutDropped(sts, service, cleaned) == sts

StoreCleaned(sts, service, cleaned) == [sts EXCEPT ![service] = cleaned]

\* state.timestamps.append(time.time()) on the service's own state.
AppendStampMutShared(sts, service, t) ==
    [s \in DOMAIN sts |-> Append(sts[s], t)]

AppendStamp(sts, service, t) ==
    [sts EXCEPT ![service] = Append(@, t)]

\* The service's stored timestamps (none while its state is not created).
TimestampsOf(service) ==
    IF service \in DOMAIN states THEN states[service] ELSE <<>>

\* What the three read operations return when called at this instant.
CleanedNow(service) ==
    CleanupOldTimestamps(TimestampsOf(service), GetConfig(configs, service), now)

CanProceedNow(service) ==
    CanProceedOn(CleanedNow(service), GetConfig(configs, service))

WaitTimeNow(service) ==
    WaitTimeOn(CleanedNow(service), GetConfig(configs, service), now)

StatsNow(service) ==
    StatsOn(CleanedNow(service), GetConfig(configs, service), now)

----------------------------------------------------------------------------
(* Threads *)

IdleThread == [pc |-> "idle", svc |-> "none", wait |-> 0, at |-> 0]

\* Inside the with block; wait_if_needed's locals are gone.
InBody(service) == [pc |-> "body", svc |-> service, wait |-> 0, at |-> 0]

NoRet == [op |-> "none", svc |-> "none", val |-> 0]

Returned(op, service, val) == [op |-> op, svc |-> service, val |-> val]

RECURSIVE SumOver(_, _)
SumOver(f, S) ==
    IF S = {} THEN 0
    ELSE LET x == CHOOSE y \in S : TRUE IN f[x] + SumOver(f, S \ {x})

InFlight == Cardinality({t \in DOMAIN threads : threads[t].pc # "idle"})

\* Calls recorded so far or still to be recorded.
TotalCalls == SumOver([s \in Services |-> Len(hist[s])], Services) + InFlight

\* The timestamps a step appended to the stored lists, added to the history.
Recorded(h, old, new) ==
    [s \in Services |->
        IF s \in DOMAIN new
            THEN h[s] \o SubSeq(new[s], Len(IF s \in DOMAIN old THEN old[s] ELSE <<>>) + 1,
                                Len(new[s]))
            ELSE h[s]]

\* No repository is being synchronised.
NoRun == [entry |-> "none", url |-> <<>>, fetches |-> 0, refreshes |-> 0,
          deleted |-> FALSE, pull |-> "none", clone |-> "none", before |-> "absent"]

SyncAtRest ==
    /\ fs = <<>>
    /\ stack = <<>>
    /\ run = NoRun
    /\ outcomes = <<>>

\* No fetch_page call is running.
NoRetry == [pc |-> "idle", attempt |-> 0, calls |-> 0, failures |-> <<>>, slept |-> 0]

RetryAtRest ==
    /\ retry = NoRetry
    /\ fetched = <<>>

\* No batch is running and nothing has been summarised.
NoBatch == [pc |-> "idle", config |-> <<>>, priority_filter |-> "None", sources |-> <<>>,
            idx |-> 0, results |-> <<>>, dry_run |-> FALSE,
            returned |-> [kind |-> "nothing", value |-> <<>>],
            summary |-> <<>>, before |-> <<>>]

NoSummary == [results |-> <<>>, made |-> FALSE, summary |-> <<>>]

BatchAtRest ==
    /\ batch = NoBatch
    /\ summarised = NoSummary

ConcAtRest == attempts = <<>>

\* No download_dataset call is running.
NoDownload == [pc |-> "idle", downloader |-> "none", id |-> <<>>, force |-> FALSE,
               streaming |-> FALSE, dir |-> <<>>, remote |-> 0, limited |-> 0]

DownloadsAtRest ==
    /\ dsets = <<>>
    /\ dl = NoDownload
    /\ dlLog = <<>>

\* _global_limiter holds None or a RateLimiter; the instances are numbered
\* from 1 in the order of their construction and 0 stands for None.
NoLimiter == 0

SingletonAtRest ==
    /\ globalLimiter = NoLimiter
    /\ callers = <<>>
    /\ instances = <<>>

RestAtRest ==
    /\ BatchAtRest
    /\ ConcAtRest
    /\ DownloadsAtRest
    /\ SingletonAtRest

InitWith(c, T) ==
    /\ custom = c
    /\ configs = InitConfigs(c)
    /\ states = <<>>
    /\ now = 0
    /\ threads = [t \in T |-> IdleThread]
    /\ ret = NoRet
    /\ hist = [s \in Services |-> <<>>]
    /\ limitDone = [s \in Services |-> 0]
    /\ directRec = [s \in Services |-> 0]

\* One caller, any constructor argument.
Init ==
    /\ \E c \in CtorInputs : InitWith(c, {1})
    /\ SyncAtRest
    /\ RetryAtRest
    /\ RestAtRest

\* Several threads share one limiter and call limit() on one service.
ConcServices == {"alpha"}

InitConc ==
    /\ \E c \in [ConcServices -> CfgSet] : InitWith(c, 1..NThreads)
    /\ SyncAtRest
    /\ RetryAtRest
    /\ RestAtRest

----------------------------------------------------------------------------
(* Operations *)

\* The clock advances.
Tick ==
    /\ now < MaxTime
    /\ now' = now + 1
    /\ ret' = NoRet
    /\ UNCHANGED <<configs, custom, states, threads, hist, limitDone, directRec>>
    /\ UNCHANGED <<syncVars, retryVars, restVars>>

\* limit(): self.wait_if_needed(service), up to the call of time.sleep when
\* there is a wait and to its return when there is none.
WaitIfNeeded(t, service) ==
    /\ threads[t].pc = "idle"
    /\ TotalCalls < MaxOps
    /\ LET config == GetConfig(configs, service)
           sts == GetState(states, service)
           cleaned == CleanupOldTimestamps(sts[service], config, now)
           wait_time == WaitTimeOn(cleaned, config, now)
       IN /\ states' = StoreCleaned(sts, service, cleaned)
          /\ IF wait_time > 0
                THEN /\ threads' = [threads EXCEPT ![t] =
                            [pc |-> "sleep", svc |-> service,
                             wait |-> wait_time, at |-> now]]
                     /\ ret' = NoRet
                ELSE /\ threads' = [threads EXCEPT ![t] = InBody(service)]
                     /\ ret' = Returned("wait_if_needed", service, wait_time)
    /\ UNCHANGED <<configs, custom, now, hist, limitDone, directRec>>
    /\ UNCHANGED <<syncVars, retryVars, restVars>>

\* time.sleep(wait_time) returns once wait_time seconds have passed, and
\* wait_if_needed returns the wait.
SleepOverMutEarly(th, t) == t >= th.at

SleepOver(th, t) == t >= th.at + th.wait

Wake(t) ==
    /\ threads[t].pc = "sleep"
    /\ SleepOver(threads[t], now)
    /\ threads' = [threads EXCEPT ![t] = InBody(threads[t].svc)]
    /\ ret' = Returned("wait_if_needed", threads[t].svc, threads[t].wait)
    /\ UNCHANGED <<configs, custom, states, now, hist, limitDone, directRec>>
    /\ UNCHANGED <<syncVars, retryVars, restVars>>

\* The wrapped operation returns normally.
OpReturns(t) ==
    /\ threads[t].pc = "body"
    /\ threads' = [threads EXCEPT ![t].pc = "finally_ok"]
    /\ ret' = NoRet
    /\ UNCHANGED <<configs, custom, states, now, hist, limitDone, directRec>>
    /\ UNCHANGED <<syncVars, retryVars, restVars>>

\* The wrapped operation raises.
OpRaises(t) ==
    /\ threads[t].pc = "body"
    /\ threads' = [threads EXCEPT ![t].pc = "finally_exc"]
    /\ ret' = NoRet
    /\ UNCHANGED <<configs, custom, states, now, hist, limitDone, directRec>>
    /\ UNCHANGED <<syncVars, retryVars, restVars>>

\* Whether limit() records the call on this exit path: the record_call is
\* in a finally clause, so on both.
RecordsOnExitMutOnlyOk(pc) == pc = "finally_ok"

RecordsOnExit(pc) == pc \in {"finally_ok", "finally_exc"}

\* limit(): the finally clause, self.record_call(service); limit() is over.
LimitExit(t) ==
    /\ threads[t].pc \in {"finally_ok", "finally_exc"}
    /\ LET service == threads[t].svc
           sts == GetState(states, service)
           new == IF RecordsOnExit(threads[t].pc)
                    THEN AppendStamp(sts, service, now)
                    ELSE states
       IN /\ states' = new
          /\ hist' = Recorded(hist, states, new)
          /\ limitDone' = [limitDone EXCEPT ![service] = @ + 1]
          /\ ret' = Returned("limit", service,
                        IF threads[t].pc = "finally_ok" THEN "returned" ELSE "raised")
    /\ threads' = [threads EXCEPT ![t] = IdleThread]
    /\ UNCHANGED <<configs, custom, now, directRec>>
    /\ UNCHANGED <<syncVars, retryVars, restVars>>

\* record_call(service), called directly.
RecordCall(t, service) ==
    /\ threads[t].pc = "idle"
    /\ TotalCalls < MaxOps
    /\ LET new == AppendStamp(GetState(states, service), service, now)
       IN /\ states' = new
          /\ hist' = Recorded(hist, states, new)
    /\ directRec' = [directRec EXCEPT ![service] = @ + 1]
    /\ ret' = Returned("record_call", service, 0)
    /\ UNCHANGED <<configs, custom, now, threads, limitDone>>
    /\ UNCHANGED <<syncVars, retryVars, restVars>>

\* can_proceed(service)
CanProceedMutRecords(t, service) ==
    /\ threads[t].pc = "idle"
    /\ LET config == GetConfig(configs, service)
           sts == GetState(states, service)
           cleaned == CleanupOldTimestamps(sts[service], config, now)
       IN /\ states' = [sts EXCEPT ![service] =
                IF CanProceedOn(cleaned, config) THEN Append(cleaned, now) ELSE cleaned]
          /\ ret' = Returned("can_proceed", service, CanProceedOn(cleaned, config))
    /\ UNCHANGED <<configs, custom, now, threads, hist, limitDone, directRec>>
    /\ UNCHANGED <<syncVars, retryVars, restVars>>

CanProceed(t, service) ==
    /\ threads[t].pc = "idle"
    /\ LET config == GetConfig(configs, service)
           sts == GetState(states, service)
           cleaned == CleanupOldTimestamps(sts[service], config, now)
       IN /\ states' = StoreCleaned(sts, service, cleaned)
          /\ ret' = Returned("can_proceed", service, CanProceedOn(cleaned, config))
    /\ UNCHANGED <<configs, custom, now, threads, hist, limitDone, directRec>>
    /\ UNCHANGED <<syncVars, retryVars, restVars>>

\* get_wait_time(service), called directly.
GetWaitTime(t, service) ==
    /\ threads[t].pc = "idle"
    /\ LET config == GetConfig(configs, service)
           sts == GetState(states, service)
           cleaned == CleanupOldTimestamps(sts[service], config, now)
       IN /\ states' = StoreCleaned(sts, service, cleaned)
          /\ ret' = Returned("get_wait_time", service, WaitTimeOn(cleaned, config, now))
    /\ UNCHANGED <<configs, custom, now, threads, hist, limitDone, directRec>>
    /\ UNCHANGED <<syncVars, retryVars, restVars>>

\* get_stats(service)
GetStats(t, service) ==
    /\ threads[t].pc = "idle"
    /\ LET config == GetConfig(configs, service)
           sts == GetState(states, service)
           cleaned == CleanupOldTimestamps(sts[service], config, now)
       IN /\ states' = StoreCleaned(sts, service, cleaned)
          /\ ret' = Returned("get_stats", service, StatsOn(cleaned, config, now))
    /\ UNCHANGED <<configs, custom, now, threads, hist, limitDone, directRec>>
    /\ UNCHANGED <<syncVars, retryVars, restVars>>

Next ==
    \/ Tick
    \/ \E t \in DOMAIN threads, s \in Services : WaitIfNeeded(t, s)
    \/ \E t \in DOMAIN threads : Wake(t)
    \/ \E t \in DOMAIN threads : OpReturns(t)
    \/ \E t \in DOMAIN threads : OpRaises(t)
    \/ \E t \in DOMAIN threads : LimitExit(t)
    \/ \E t \in DOMAIN threads, s \in Services : RecordCall(t, s)
    \/ \E t \in DOMAIN threads, s \in Services : CanProceed(t, s)
    \/ \E t \in DOMAIN threads, s \in Services : GetWaitTime(t, s)
    \/ \E t \in DOMAIN threads, s \in Services : GetStats(t, s)

Spec == Init /\ [][Next]_vars

\* The threads only run limit() blocks, all on the same service.
NextConc ==
    \/ Tick
    \/ \E t \in DOMAIN threads, s \in ConcServices : WaitIfNeeded(t, s)
    \/ \E t \in DOMAIN threads : Wake(t)
    \/ \E t \in DOMAIN threads : OpReturns(t)
    \/ \E t \in DOMAIN threads : OpRaises(t)
    \/ \E t \in DOMAIN threads : LimitExit(t)

SpecConc == InitConc /\ [][NextConc]_vars

----------------------------------------------------------------------------
(* Observations used by the properties *)

ConfigOf(service) == GetConfig(configs, service)

\* The number of timestamps of h inside the trailing window (t - period, t].
WindowCount(h, period, t) ==
    Cardinality({i \in 1..Len(h) : t - period < h[i] /\ h[i] <= t})

\* The number of timestamps of h equal to t.
CountAt(h, t) == Cardinality({i \in 1..Len(h) : h[i] = t})

SingleCaller == Cardinality(DOMAIN threads) = 1

\* The service was only ever charged through limit().
LimitOnly(service) == directRec[service] = 0

\* The oldest stored timestamp that is still inside the window.
OldestInWindow(service) ==
    LET live == {TimestampsOf(service)[i] : i \in 1..Len(TimestampsOf(service))}
                    \cap ((now - ConfigOf(service).period + 1)..now)
    IN CHOOSE m \in live : \A x \in live : m <= x

\* limit(k) has computed its wait at this very instant: the caller is about
\* to sleep, or wait_if_needed has just returned 0.
JustEntered(k) ==
    \/ ret.op = "wait_if_needed" /\ ret.svc = k /\ ret.val = 0
    \/ \E t \in DOMAIN threads :
            threads[t].pc = "sleep" /\ threads[t].svc = k /\ threads[t].at = now

\* The wait that limit(k) computed at this instant.
EntryWait(k) ==
    IF ret.op = "wait_if_needed" /\ ret.svc = k
        THEN ret.val
        ELSE LET t == CHOOSE u \in DOMAIN threads :
                        threads[u].pc = "sleep" /\ threads[u].svc = k /\ threads[u].at = now
             IN threads[t].wait

----------------------------------------------------------------------------
(* C1: for a single caller issuing limit(k) one after another, with no     *)
(* direct record_call, at every instant t the number of timestamps         *)
(* recorded for k inside (t - period, t] is at most calls + burst.         *)
C1_WindowBound ==
    SingleCaller =>
        \A k \in Services : LimitOnly(k) =>
            \A t \in 0..now :
                WindowCount(hist[k], ConfigOf(k).period, t) <= MaxCallsOf(ConfigOf(k))

\* A service charged only through limit() more often than its window holds:
\* a call was admitted after the wait, and its timestamp recorded.
C1_Witness ==
    /\ SingleCaller
    /\ \E k \in Services :
        /\ LimitOnly(k)
        /\ Len(hist[k]) > MaxCallsOf(ConfigOf(k))
        /\ ret = Returned("limit", k, "returned")

(* C2: when several threads call limit(k) concurrently on one key, the     *)
(* number of calls recorded within one period-length window never exceeds  *)
(* calls + burst.                                                          *)
C2_ConcurrentWindowBound ==
    Cardinality(DOMAIN threads) > 1 =>
        \A k \in ConcServices : \A t \in 0..now :
            WindowCount(hist[k], ConfigOf(k).period, t) <= MaxCallsOf(ConfigOf(k))

(* C3: every completed limit(k) appends exactly one timestamp to k,        *)
(* whether the wrapped operation returned or raised, and appends it after  *)
(* the operation finished: the recorded timestamps of k are one per        *)
(* completed limit(k) and one per direct record_call(k), and a limit(k)    *)
(* still in its body has not been charged.                                 *)
C3_OneRecordPerLimit ==
    \A k \in Services :
        /\ Len(hist[k]) = limitDone[k] + directRec[k]
        /\ ret.op = "limit" /\ ret.svc = k =>
            /\ TimestampsOf(k) # <<>>
            /\ TimestampsOf(k)[Len(TimestampsOf(k))] = now

\* A limit(k) whose operation raised has just completed and is recorded.
C3_Witness ==
    \E k \in Services :
        /\ ret = Returned("limit", k, "raised")
        /\ limitDone[k] >= 1
        /\ Len(hist[k]) = limitDone[k]

(* C4: from an empty window and against a frozen clock, the first          *)
(* calls + burst limit(k) calls wait 0 and the next one waits more than 0  *)
(* and at most period.                                                     *)
C4_FrozenClock ==
    SingleCaller =>
        \A k \in Services :
            (/\ JustEntered(k)
             /\ LimitOnly(k)
             /\ CountAt(hist[k], now) = Len(hist[k]))
            => /\ Len(hist[k]) < MaxCallsOf(ConfigOf(k)) => EntryWait(k) = 0
               /\ Len(hist[k]) >= MaxCallsOf(ConfigOf(k)) =>
                    /\ EntryWait(k) > 0
                    /\ EntryWait(k) <= ConfigOf(k).period
                    /\ Len(hist[k]) = MaxCallsOf(ConfigOf(k))

\* The (calls + burst + 1)-th back-to-back call, with a burst, is waiting.
C4_Witness ==
    \E t \in DOMAIN threads :
        LET th == threads[t]
            k == th.svc
        IN /\ th.pc = "sleep"
           /\ th.at = now
           /\ LimitOnly(k)
           /\ ConfigOf(k).burst > 0
           /\ CountAt(hist[k], now) = Len(hist[k])
           /\ Len(hist[k]) = MaxCallsOf(ConfigOf(k))
           /\ th.wait = ConfigOf(k).period

\* The window of k was full just before now, and now is exactly one period
\* after its first recorded call.
FullWindowReopens(k) ==
    LET p == ConfigOf(k).period
    IN /\ now >= p
       /\ WindowCount(hist[k], p, now - 1) = MaxCallsOf(ConfigOf(k))
       /\ CountAt(hist[k], now - p) >= 1

(* C5 as stated: when k's window is full, at the instant exactly period    *)
(* after the first recorded call exactly one more call is admitted with    *)
(* zero wait and a second one at that instant has to wait.                 *)
C5_OneSlotReopens ==
    \A k \in Services : (FullWindowReopens(k) /\ LimitOnly(k)) =>
        /\ CountAt(hist[k], now) = 0 => WaitTimeNow(k) = 0
        /\ CountAt(hist[k], now) >= 1 => WaitTimeNow(k) > 0

(* C5 amended: at that instant as many calls are admitted with zero wait   *)
(* as were recorded at the instant of the first call (exactly one when the *)
(* first call's timestamp is unique), and the next one has to wait.        *)
C5_SlotsReopen ==
    \A k \in Services : FullWindowReopens(k) =>
        (WaitTimeNow(k) = 0 <=>
            CountAt(hist[k], now) < CountAt(hist[k], now - ConfigOf(k).period))

\* Through limit() only: the window was full, its first call alone at its
\* instant; one period later one call was admitted and recorded, and the
\* next call has to wait.
C5_Witness ==
    \E k \in Services :
        /\ FullWindowReopens(k)
        /\ LimitOnly(k)
        /\ MaxCallsOf(ConfigOf(k)) >= 2
        /\ CountAt(hist[k], now - ConfigOf(k).period) = 1
        /\ CountAt(hist[k], now) = 1
        /\ WaitTimeNow(k) > 0

(* C6: get_wait_time(k) returns 0 exactly when can_proceed(k) returns true *)
(* at that instant, and otherwise max(0, oldest + period - now) for the    *)
(* oldest timestamp still in the window; with calls=2, period=10, burst=0  *)
(* and calls recorded at 0 and 1, a call at 2 waits 8.                     *)
C6_WaitTime ==
    /\ \A k \in Services :
        /\ WaitTimeNow(k) = 0 <=> CanProceedNow(k)
        /\ ~CanProceedNow(k) =>
            WaitTimeNow(k) = Max0(OldestInWindow(k) + ConfigOf(k).period - now)
        /\ ret.op = "get_wait_time" /\ ret.svc = k => ret.val = WaitTimeNow(k)
        /\ ret.op = "can_proceed" /\ ret.svc = k => ret.val = CanProceedNow(k)
        /\ (ConfigOf(k) = ScenarioConfig /\ TimestampsOf(k) = <<0, 1>> /\ now = 2)
            => WaitTimeNow(k) = 8
    /\ \A k \in Services :
        JustEntered(k) /\ SingleCaller => EntryWait(k) = WaitTimeNow(k)

\* The scenario: get_wait_time returned 8 at t = 2.
C6_Witness ==
    \E k \in Services :
        /\ ConfigOf(k) = ScenarioConfig
        /\ hist[k] = <<0, 1>>
        /\ now = 2
        /\ ret = Returned("get_wait_time", k, 8)

(* C7 as stated: immediately after limit(k) has recorded an admitted call, *)
(* the stored timestamp sequence of k has at most calls + burst elements,  *)
(* also when the call was admitted after waiting.                          *)
C7_StoredLength ==
    SingleCaller =>
        \A k \in Services :
            (ret.op = "limit" /\ ret.svc = k /\ LimitOnly(k))
                => Len(TimestampsOf(k)) <= MaxCallsOf(ConfigOf(k))

(* C7 amended: for a single caller using only limit(k), immediately after  *)
(* limit(k) has recorded a call at most calls + burst of the stored        *)
(* timestamps lie inside the window; the stored sequence itself has at     *)
(* most calls + burst + 1 elements, the extra one being the expired        *)
(* timestamp the call waited for, which record_call does not discard.      *)
C7_StoredLengthAmended ==
    SingleCaller =>
        \A k \in Services :
            (ret.op = "limit" /\ ret.svc = k /\ LimitOnly(k))
                => /\ Len(CleanedNow(k)) <= MaxCallsOf(ConfigOf(k))
                   /\ Len(TimestampsOf(k)) <= MaxCallsOf(ConfigOf(k)) + 1

\* limit(k) has just recorded a call it had waited for: the stored sequence
\* holds calls + burst + 1 timestamps.
C7_Witness ==
    \E k \in Services :
        /\ ret.op = "limit" /\ ret.svc = k
        /\ LimitOnly(k)
        /\ Len(TimestampsOf(k)) = MaxCallsOf(ConfigOf(k)) + 1
        /\ Len(CleanedNow(k)) = MaxCallsOf(ConfigOf(k))

\* The documented default.
DefaultConfig == RateLimitConfig(10, 60, 0)

\* What can_proceed, get_wait_time, get_stats and limit's wait_if_needed have
\* just returned for the service k is what they return under the config c.
BehavesAsUnder(k, c) ==
    LET cleaned == CleanupOldTimestamps(TimestampsOf(k), c, now)
    IN /\ ret.op = "can_proceed" /\ ret.svc = k => ret.val = CanProceedOn(cleaned, c)
       /\ ret.op = "get_wait_time" /\ ret.svc = k => ret.val = WaitTimeOn(cleaned, c, now)
       /\ ret.op = "get_stats" /\ ret.svc = k => ret.val = StatsOn(cleaned, c, now)
       /\ JustEntered(k) /\ SingleCaller => EntryWait(k) = WaitTimeOn(cleaned, c, now)

Unconfigured(k) == k \notin DOMAIN custom /\ k \notin DOMAIN RATE_LIMITS

(* C8 as stated: a service with no configured limit behaves as under       *)
(* calls=10, period=60, burst=0, whatever configs the constructor was      *)
(* given for other keys.                                                   *)
C8_DocumentedDefault ==
    \A k \in Services : Unconfigured(k) => BehavesAsUnder(k, DefaultConfig)

(* C8 amended: a service with no configured limit behaves as under the     *)
(* config in effect for web_scraper: the one the constructor was given for *)
(* web_scraper if any, and calls=10, period=60, burst=0 otherwise.         *)
C8_WebScraperDefault ==
    \A k \in Services : Unconfigured(k) =>
        BehavesAsUnder(k, IF "web_scraper" \in DOMAIN custom
                            THEN custom["web_scraper"]
                            ELSE DefaultConfig)

\* limit() on an unconfigured service waits under the overridden
\* web_scraper config, where the default of 10 per 60 would admit the call.
C8_Witness ==
    \E t \in DOMAIN threads :
        LET k == threads[t].svc
        IN /\ threads[t].pc = "sleep"
           /\ k \in Services
           /\ Unconfigured(k)
           /\ "web_scraper" \in DOMAIN custom
           /\ threads[t].wait = custom["web_scraper"].period

\* What a caller can see of the service b: its stored and its recorded
\* timestamps, and what can_proceed(b) and get_wait_time(b) return.
Observed(b) ==
    LET config == ConfigOf(b)
        cleaned == CleanupOldTimestamps(TimestampsOf(b), config, now)
    IN <<TimestampsOf(b), hist[b], CanProceedOn(cleaned, config),
         WaitTimeOn(cleaned, config, now)>>

\* A step of a limiter operation on the service a: a call on a returns
\* (record_call, can_proceed, get_wait_time, get_stats, wait_if_needed,
\* limit), or a thread enters limit(a).
OpOn(a) ==
    \/ ret'.op # "none" /\ ret'.svc = a
    \/ \E t \in DOMAIN threads :
            threads[t].pc = "idle" /\ threads'[t].pc # "idle" /\ threads'[t].svc = a

(* C9: limiter operations on key A leave the recorded timestamps, the      *)
(* admissibility and the wait time of every other key B unchanged, also    *)
(* when A and B both use the fallback config.                              *)
C9_OtherKeysUntouched ==
    [][\A a \in Services : OpOn(a) =>
        \A b \in Services \ {a} : Observed(b)' = Observed(b)]_vars

\* Two services that share the fallback config: the window of one is full
\* while the other has just been charged.
C9_Witness ==
    \E a \in Services : \E b \in Services \ {a} :
        /\ Unconfigured(a) /\ Unconfigured(b)
        /\ ret.op \in {"limit", "record_call"} /\ ret.svc = a
        /\ TimestampsOf(b) # <<>>
        /\ ~CanProceedNow(b)
        /\ hist[a] # <<>>

(* C10: can_proceed(k) and get_stats(k) never record a call: they leave    *)
(* the number of calls counted in k's window, the result of can_proceed(k) *)
(* and the value of get_wait_time(k) unchanged.                            *)
C10_IntrospectionRecordsNothing ==
    [][\A k \in Services :
        (ret'.op \in {"can_proceed", "get_stats"} /\ ret'.svc = k) =>
            /\ Len(CleanedNow(k))' = Len(CleanedNow(k))
            /\ CanProceedNow(k)' = CanProceedNow(k)
            /\ WaitTimeNow(k)' = WaitTimeNow(k)
            /\ hist' = hist]_vars

\* can_proceed has just answered no on a full window.
C10_Witness ==
    \E k \in Services :
        /\ ret = Returned("can_proceed", k, FALSE)
        /\ Len(CleanedNow(k)) = MaxCallsOf(ConfigOf(k))
        /\ Len(hist[k]) > Len(TimestampsOf(k))

----------------------------------------------------------------------------
(***************************************************************************)
(* The repository synchronisation engine (crawlers/cloners/                *)
(* github_cloner.py).  clone_repo and update_repo call each other; the     *)
(* call stack holds one frame per active call.  A frame is at its "entry"  *)
(* (the lines before the try block), at "git" (about to run the            *)
(* subprocess) or at "call" (waiting for the call it made; `guarded` says  *)
(* whether that call sits inside the frame's try block).  What git does is *)
(* the environment's choice.                                               *)
(***************************************************************************)

MaxRuns == 2        \* invocations of clone_repo / update_repo in one behaviour

\* A text is a sequence of tokens; " " and "\n" are the whitespace tokens.
Whitespace == {" ", "\n"}

\* str.strip()
RECURSIVE LStrip(_)
LStrip(text) ==
    IF text # <<>> /\ Head(text) \in Whitespace THEN LStrip(Tail(text)) ELSE text

RECURSIVE RStrip(_)
RStrip(text) ==
    IF text # <<>> /\ text[Len(text)] \in Whitespace
        THEN RStrip(SubSeq(text, 1, Len(text) - 1))
        ELSE text

Strip(text) == RStrip(LStrip(text))

\* A URL, given by urlparse(url).path.strip("/").split("/"); the empty URL
\* and the URL without a path both split into the single segment "".
EmptyUrl == <<"">>
OwnerOnlyUrl == <<"org">>
Urls == {EmptyUrl, OwnerOnlyUrl, <<"org", "repo">>, <<"dev", "repo">>}

Category == "general"

ExtractRepoInfo(url) ==
    IF Len(url) >= 2
        THEN [ok |-> TRUE, owner |-> url[1], repo_name |-> url[2]]
        ELSE [ok |-> FALSE, owner |-> "", repo_name |-> ""]

CategoryDir(category) == <<category>>

LocalPath(url, category) == <<category, ExtractRepoInfo(url).repo_name>>

LocalPaths == {LocalPath(u, Category) : u \in {v \in Urls : ExtractRepoInfo(v).ok}}

\* Path.exists()
Exists(files, path) == files[path] # "absent"

\* RepoInfo.error
ErrNone == [some |-> FALSE, text |-> <<>>]
ErrText(text) == [some |-> TRUE, text |-> text]

RepoInfo(url, status, error) ==
    [name |-> ExtractRepoInfo(url).repo_name, url |-> url,
     local_path |-> LocalPath(url, Category), category |-> Category,
     status |-> status, error |-> error]

Frame(fn, pc, guarded) == [fn |-> fn, pc |-> pc, guarded |-> guarded]

Top == stack[Len(stack)]

ReplaceTop(frame) == [stack EXCEPT ![Len(stack)] = frame]

\* How the invocation ends when the top frame returns `info`: every caller
\* returns the value of the call it made.
PathContent(files, url) ==
    IF ExtractRepoInfo(url).ok THEN files[LocalPath(url, Category)] ELSE "absent"

ReturnedOutcome(info, r, files) ==
    [kind |-> "returned", info |-> info, run |-> r, after |-> PathContent(files, r.url)]

\* How the invocation ends when the top frame raises: the nearest caller
\* whose call sits in its try block turns the exception into a failed
\* RepoInfo, otherwise the exception leaves the outermost call.
RaisedOutcome(exc, text, r, files) ==
    IF \E i \in 1..(Len(stack) - 1) : stack[i].pc = "call" /\ stack[i].guarded
        THEN ReturnedOutcome(RepoInfo(r.url, "failed", ErrText(text)), r, files)
        ELSE [kind |-> "raised", info |-> [status |-> exc, error |-> ErrText(text)],
              run |-> r, after |-> PathContent(files, r.url)]

Finish(outcome) ==
    /\ stack' = <<>>
    /\ outcomes' = Append(outcomes, outcome)

\* The limiter and the retry policy exist but are not driven here.
InitSync ==
    /\ InitWith(<<>>, {1})
    /\ RetryAtRest
    /\ RestAtRest
    /\ stack = <<>>
    /\ run = NoRun
    /\ outcomes = <<>>
    /\ fs \in [LocalPaths \cup {CategoryDir(Category)} -> {"absent", "old"}]
    /\ \A p \in LocalPaths : Exists(fs, p) => Exists(fs, CategoryDir(Category))

\* A caller invokes clone_repo(url) or update_repo(url).
Invoke(fn, url) ==
    /\ stack = <<>>
    /\ Len(outcomes) < MaxRuns
    /\ stack' = <<Frame(fn, "entry", FALSE)>>
    /\ run' = [NoRun EXCEPT !.entry = fn, !.url = url, !.before = PathContent(fs, url)]
    /\ UNCHANGED <<fs, outcomes, limiterVars, retryVars, restVars>>

CallCloneRepo(url) == Invoke("clone_repo", url)

CallUpdateRepo(url) == Invoke("update_repo", url)

\* ensure_dir(path)
EnsureDir(files, path) == [files EXCEPT ![path] = IF @ = "absent" THEN "old" ELSE @]

\* clone_repo up to its try block: resolve the path, create the category
\* directory, hand over to update_repo when the local path exists.
EnterCloneRepo ==
    /\ stack # <<>>
    /\ Top.fn = "clone_repo" /\ Top.pc = "entry"
    /\ IF ~ExtractRepoInfo(run.url).ok
          THEN /\ Finish(RaisedOutcome("ValueError", <<"Invalid GitHub URL:">>, run, fs))
               /\ UNCHANGED fs
          ELSE LET made == EnsureDir(fs, CategoryDir(Category))
               IN /\ fs' = made
                  /\ stack' = IF Exists(made, LocalPath(run.url, Category))
                                 THEN Append(ReplaceTop(Frame("clone_repo", "call", FALSE)),
                                             Frame("update_repo", "entry", FALSE))
                                 ELSE ReplaceTop(Frame("clone_repo", "git", FALSE))
                  /\ UNCHANGED outcomes
    /\ UNCHANGED <<run, limiterVars, retryVars, restVars>>

\* update_repo up to its try block: resolve the path, hand over to
\* clone_repo when the local path does not exist.
EnterUpdateRepo ==
    /\ stack # <<>>
    /\ Top.fn = "update_repo" /\ Top.pc = "entry"
    /\ IF ~ExtractRepoInfo(run.url).ok
          THEN Finish(RaisedOutcome("ValueError", <<"Invalid GitHub URL:">>, run, fs))
          ELSE /\ stack' = IF ~Exists(fs, LocalPath(run.url, Category))
                              THEN Append(ReplaceTop(Frame("update_repo", "call", FALSE)),
                                          Frame("clone_repo", "entry", FALSE))
                              ELSE ReplaceTop(Frame("update_repo", "git", FALSE))
               /\ UNCHANGED outcomes
    /\ UNCHANGED <<fs, run, limiterVars, retryVars, restVars>>

\* What subprocess.run(["git", "clone", ...], timeout=300) can do: return
\* with exit code 0, return with another exit code and some stderr, hit the
\* timeout (the child is killed), or raise.  `left` is what is then found at
\* the local path: git removes the directory of a clone that fails, a killed
\* git cannot.
StderrTexts == {<<>>, <<"\n">>, <<"fatal: unable to access", "\n">>}

ExceptionTexts == {<<"[Errno 2] No such file or directory: 'git'">>}

CloneResults ==
    {[kind |-> "exit0", text |-> <<>>, left |-> "cloned"]}
    \cup [kind : {"nonzero"}, text : StderrTexts, left : {"absent", "partial"}]
    \cup [kind : {"timeout"}, text : {<<>>}, left : {"absent", "partial"}]
    \cup [kind : {"exception"}, text : ExceptionTexts, left : {"absent"}]

CloneInfoMutNoSuccess(url, res) ==
    IF res.kind = "exit0"
        THEN RepoInfo(url, "failed", ErrText(Strip(res.text)))
        ELSE RepoInfo(url, "failed", ErrText(<<"Clone timeout">>))

\* The RepoInfo clone_repo builds from the result of git clone.
CloneInfo(url, res) ==
    CASE res.kind = "exit0" -> RepoInfo(url, "cloned", ErrNone)
      [] res.kind = "nonzero" -> RepoInfo(url, "failed", ErrText(Strip(res.text)))
      [] res.kind = "timeout" -> RepoInfo(url, "failed", ErrText(<<"Clone timeout">>))
      [] res.kind = "exception" -> RepoInfo(url, "failed", ErrText(res.text))

\* clone_repo's try block: git clone is run once, directly.
GitClone(res) ==
    /\ stack # <<>>
    /\ Top.fn = "clone_repo" /\ Top.pc = "git"
    /\ fs' = [fs EXCEPT ![LocalPath(run.url, Category)] = res.left]
    /\ run' = [run EXCEPT !.fetches = @ + 1, !.clone = res.kind]
    /\ Finish(ReturnedOutcome(CloneInfo(run.url, res), run', fs'))
    /\ UNCHANGED <<limiterVars, retryVars, restVars>>

\* What subprocess.run(["git", "-C", path, "pull", "--ff-only"], timeout=120)
\* can do: exit code 0, another exit code for some reason, or raise (the
\* timeout included).
PullReasons == {"non-fast-forward", "network", "permission"}

PullTexts == {<<"Command 'git' timed out after 120 seconds">>}

PullResults ==
    {[kind |-> "exit0", reason |-> "ok", text |-> <<>>]}
    \cup [kind : {"nonzero"}, reason : PullReasons, text : {<<>>}]
    \cup [kind : {"exception"}, reason : {"exception"}, text : PullTexts]

\* The RepoInfo update_repo builds itself: after a pull that exits with 0,
\* and after an exception.
PullInfoMutCloned(url, res) ==
    IF res.kind = "exit0"
        THEN RepoInfo(url, "cloned", ErrNone)
        ELSE RepoInfo(url, "failed", ErrText(res.text))

PullInfo(url, res) ==
    IF res.kind = "exit0"
        THEN RepoInfo(url, "updated", ErrNone)
        ELSE RepoInfo(url, "failed", ErrText(res.text))

RmTreeMutKeeps(files, path) == files

\* shutil.rmtree(path)
RmTree(files, path) == [files EXCEPT ![path] = "absent"]

\* The pull failed with a nonzero exit code: whatever the reason,
\* update_repo removes the local path and calls clone_repo.
RebuildsOn(res) == res.kind = "nonzero"

\* update_repo's try block: git pull is run once, directly.
GitPull(res) ==
    /\ stack # <<>>
    /\ Top.fn = "update_repo" /\ Top.pc = "git"
    /\ LET path == LocalPath(run.url, Category)
           r == [run EXCEPT !.refreshes = @ + 1, !.pull = res.reason]
       IN CASE res.kind = "exit0" ->
                 /\ fs' = [fs EXCEPT ![path] = "pulled"]
                 /\ run' = r
                 /\ Finish(ReturnedOutcome(PullInfo(run.url, res), run', fs'))
            [] RebuildsOn(res) ->
                 /\ fs' = RmTree(fs, path)
                 /\ run' = [r EXCEPT !.deleted = TRUE]
                 /\ stack' = Append(ReplaceTop(Frame("update_repo", "call", TRUE)),
                                    Frame("clone_repo", "entry", FALSE))
                 /\ UNCHANGED outcomes
            [] OTHER ->
                 /\ fs' = fs
                 /\ run' = r
                 /\ Finish(ReturnedOutcome(PullInfo(run.url, res), run', fs'))
    /\ UNCHANGED <<limiterVars, retryVars, restVars>>

NextSync ==
    \/ \E u \in Urls : CallCloneRepo(u)
    \/ \E u \in Urls : CallUpdateRepo(u)
    \/ EnterCloneRepo
    \/ EnterUpdateRepo
    \/ \E res \in CloneResults : GitClone(res)
    \/ \E res \in PullResults : GitPull(res)

SpecSync == InitSync /\ [][NextSync]_vars

----------------------------------------------------------------------------
(***************************************************************************)
(* The retry policy (crawlers/utils/helpers.py, create_retry_decorator)    *)
(* around BaseScraper.fetch_page.  The decorator is tenacity's             *)
(*   retry(stop=stop_after_attempt(...), wait=wait_exponential(...))       *)
(* with no `reraise` argument: when the stop condition holds after a       *)
(* failed attempt, tenacity raises RetryError from that attempt's          *)
(* exception.  fetch_page itself logs a RequestException and raises it     *)
(* again, so every failure of the request reaches the retry policy.        *)
(***************************************************************************)

MaxFetches == 2     \* calls of fetch_page in one behaviour

RETRY_CONFIG == [max_attempts |-> 3, wait_min |-> 1, wait_max |-> 10, wait_multiplier |-> 2]

\* The requests exceptions an attempt can end with.
Failures == {"ConnectionError", "Timeout", "HTTPError"}

\* stop_after_attempt(max_attempts)
StopAfterAttempt(attempt_number) == attempt_number >= RETRY_CONFIG.max_attempts

RECURSIVE Pow(_, _)
Pow(b, n) == IF n = 0 THEN 1 ELSE b * Pow(b, n - 1)

MinInt(a, b) == IF a < b THEN a ELSE b
MaxInt(a, b) == IF a > b THEN a ELSE b

\* wait_exponential(multiplier, min, max), exp_base 2
WaitExponential(attempt_number) ==
    MaxInt(MaxInt(0, RETRY_CONFIG.wait_min),
           MinInt(RETRY_CONFIG.wait_multiplier * Pow(2, attempt_number - 1),
                  RETRY_CONFIG.wait_max))

\* How a fetch_page call ended, with the history of its attempts.
FetchEnded(kind, exc, r) ==
    [kind |-> kind, exc |-> exc, calls |-> r.calls, failures |-> r.failures,
     slept |-> r.slept]

InitRetry ==
    /\ InitWith(<<>>, {1})
    /\ SyncAtRest
    /\ RetryAtRest
    /\ RestAtRest

\* A scraper calls fetch_page(url).
CallFetchPage ==
    /\ retry.pc = "idle"
    /\ Len(fetched) < MaxFetches
    /\ retry' = [NoRetry EXCEPT !.pc = "attempt", !.attempt = 1]
    /\ UNCHANGED <<fetched, limiterVars, syncVars, restVars>>

\* One attempt: the wrapped function runs once and returns the page text or
\* raises.
Attempt(result) ==
    /\ retry.pc = "attempt"
    /\ LET r == [retry EXCEPT !.calls = @ + 1,
                              !.failures = IF result = "ok" THEN @ ELSE Append(@, result)]
       IN CASE result = "ok" ->
                 /\ retry' = [r EXCEPT !.pc = "idle"]
                 /\ fetched' = Append(fetched, FetchEnded("returned", "none", r))
            [] result # "ok" /\ StopAfterAttempt(retry.attempt) ->
                 /\ retry' = [r EXCEPT !.pc = "idle"]
                 /\ fetched' = Append(fetched, FetchEnded("raised", "RetryError", r))
            [] OTHER ->
                 /\ retry' = [r EXCEPT !.pc = "backoff"]
                 /\ fetched' = fetched
    /\ UNCHANGED <<limiterVars, syncVars, restVars>>

\* The sleep between two attempts.
Backoff ==
    /\ retry.pc = "backoff"
    /\ retry' = [retry EXCEPT !.pc = "attempt",
                              !.slept = @ + WaitExponential(retry.attempt),
                              !.attempt = @ + 1]
    /\ UNCHANGED <<fetched, limiterVars, syncVars, restVars>>

NextRetry ==
    \/ CallFetchPage
    \/ \E result \in {"ok"} \cup Failures : Attempt(result)
    \/ Backoff

SpecRetry == InitRetry /\ [][NextRetry]_vars

----------------------------------------------------------------------------
(* Observations on the synchronisation engine *)

\* The finished invocations that were given a well-formed URL.
Synced == {i \in DOMAIN outcomes : ExtractRepoInfo(outcomes[i].run.url).ok}

Running == stack # <<>>

StatusOf(o) == IF o.kind = "returned" THEN o.info.status ELSE "raised"

\* C11: clone_repo on a local path that does not exist runs git clone exactly
\* once and never git pull (also while it is still running); when the clone
\* exits with 0 the returned RepoInfo has status "cloned" and error None.
C11_FetchNewOnce ==
    /\ \A i \in Synced :
          LET o == outcomes[i]
          IN (o.run.entry = "clone_repo" /\ o.run.before = "absent") =>
                /\ o.run.fetches = 1
                /\ o.run.refreshes = 0
                /\ ~o.run.deleted
                /\ o.run.clone = "exit0" =>
                      /\ o.kind = "returned"
                      /\ o.info.status = "cloned"
                      /\ o.info.error = ErrNone
    /\ (Running /\ run.entry = "clone_repo" /\ run.before = "absent") =>
          run.refreshes = 0 /\ run.fetches = 0

C11_Witness ==
    \E i \in Synced :
        /\ outcomes[i].run.entry = "clone_repo"
        /\ outcomes[i].run.before = "absent"
        /\ outcomes[i].run.clone = "exit0"
        /\ outcomes[i].info.status = "cloned"

\* C12: clone_repo on a local path that exists, with a pull that exits with
\* 0, returns status "updated", error None, without deleting the path and
\* without a git clone; two such runs in succession both return "updated",
\* and the path exists after each.
C12_RefreshIdempotent ==
    \A i \in Synced :
        LET o == outcomes[i]
        IN (o.run.entry = "clone_repo" /\ o.run.before # "absent" /\ o.run.pull = "ok") =>
              /\ StatusOf(o) = "updated"
              /\ o.info.error = ErrNone
              /\ o.run.refreshes = 1
              /\ o.run.fetches = 0
              /\ ~o.run.deleted
              /\ o.after # "absent"

C12_Witness ==
    /\ Len(outcomes) >= 2
    /\ \A i \in 1..2 :
          /\ i \in Synced
          /\ outcomes[i].run.entry = "clone_repo"
          /\ outcomes[i].run.before # "absent"
          /\ outcomes[i].run.pull = "ok"
          /\ outcomes[i].info.status = "updated"
    /\ outcomes[1].info.local_path = outcomes[2].info.local_path

\* C13: when the local path exists and git pull --ff-only exits with a
\* nonzero code because the history diverged, the path is deleted, then git
\* clone runs exactly once on the absent path, and the status returned is the
\* clone's: "cloned" if it exits with 0 and "failed" otherwise, never
\* "updated"; no second pull is made.
C13_RebuildAfterDivergence ==
    /\ \A i \in Synced :
          LET o == outcomes[i]
          IN (o.run.before # "absent" /\ o.run.pull = "non-fast-forward") =>
                /\ o.run.deleted
                /\ o.run.refreshes = 1
                /\ o.run.fetches = 1
                /\ o.kind = "returned"
                /\ o.info.status = (IF o.run.clone = "exit0" THEN "cloned" ELSE "failed")
    /\ (Running /\ run.pull = "non-fast-forward") =>
          /\ run.deleted
          /\ run.refreshes = 1
          /\ run.fetches = 0
          /\ Top.fn = "clone_repo"
          /\ fs[LocalPath(run.url, Category)] = "absent"

C13_Witness ==
    /\ \E i \in Synced :
          /\ outcomes[i].run.pull = "non-fast-forward"
          /\ outcomes[i].info.status = "cloned"
    /\ \E i \in Synced :
          /\ outcomes[i].run.pull = "non-fast-forward"
          /\ outcomes[i].info.status = "failed"

\* C14: when the local path exists and git pull fails because of the network
\* or of a permission error, the outcome is "failed" and the local path is
\* neither deleted nor changed.
C14_OtherFailureLeavesPath ==
    \A i \in Synced :
        LET o == outcomes[i]
        IN (o.run.before # "absent" /\ o.run.pull \in {"network", "permission"}) =>
              /\ StatusOf(o) = "failed"
              /\ ~o.run.deleted
              /\ o.after = o.run.before

\* C15: when git clone fails (timeout, nonzero exit code or exception) the
\* outcome is "failed" with an error text and the local path does not exist
\* afterwards.
C15_FailedFetchLeavesNothing ==
    \A i \in Synced :
        LET o == outcomes[i]
        IN o.run.clone \in {"nonzero", "timeout", "exception"} =>
              /\ StatusOf(o) = "failed"
              /\ o.info.error.some
              /\ o.after = "absent"

\* C16: every invocation of clone_repo or update_repo, the ones with an empty
\* URL or a URL of fewer than two path segments included, ends by returning
\* a RepoInfo, never by raising.
C16_NoExceptionEscapes ==
    \A i \in DOMAIN outcomes : outcomes[i].kind = "returned"

\* C17: a returned RepoInfo with status "failed" has a non-empty error text,
\* and one with status "cloned" or "updated" has error None.
C17_FailedCarriesError ==
    \A i \in DOMAIN outcomes :
        LET o == outcomes[i]
        IN o.kind = "returned" =>
              /\ o.info.status = "failed" =>
                    o.info.error.some /\ o.info.error.text # <<>>
              /\ o.info.status \in {"cloned", "updated"} => o.info.error = ErrNone

\* The calls recorded by the rate limiter, over all services.
RecordedCalls ==
    SumOver([s \in DOMAIN states |-> Len(states[s])], DOMAIN states)

\* C18: every git clone and git pull of an invocation has recorded a call
\* with the rate limiter, and a clone that timed out is reported as "failed"
\* only after max_attempts attempts.
C18_LimiterAndRetry ==
    \A i \in Synced :
        LET o == outcomes[i]
        IN /\ o.run.fetches + o.run.refreshes <= RecordedCalls
           /\ (StatusOf(o) = "failed" /\ o.run.clone = "timeout") =>
                 o.run.fetches = RETRY_CONFIG.max_attempts

\* C19: every invocation ends with exactly one of the statuses "cloned",
\* "updated", "failed", after at most one git pull and at most one git clone,
\* and nothing of it is left running once it has ended.
C19_EndsInTerminalStatus ==
    /\ \A i \in DOMAIN outcomes :
          /\ StatusOf(outcomes[i]) \in {"cloned", "updated", "failed"}
          /\ outcomes[i].run.refreshes <= 1
          /\ outcomes[i].run.fetches <= 1
    /\ Len(stack) <= 3
    /\ run.refreshes <= 1 /\ run.fetches <= 1

\* C20: a fetch_page call whose every attempt fails has invoked the wrapped
\* function exactly max_attempts times and ends by raising the exception of
\* its last attempt; a call that succeeds on attempt i has invoked it exactly
\* i times.
C20_RetryReraisesLast ==
    \A k \in DOMAIN fetched :
        LET f == fetched[k]
        IN /\ f.kind = "raised" =>
                 /\ f.calls = RETRY_CONFIG.max_attempts
                 /\ Len(f.failures) = f.calls
                 /\ f.exc = f.failures[Len(f.failures)]
           /\ f.kind = "returned" => f.calls = Len(f.failures) + 1

----------------------------------------------------------------------------
(***************************************************************************)
(* The batch runner (crawlers/cloners/clone_all.py, clone_all_repos) and   *)
(* GitHubCloner.get_status_summary.  The sources come from the registry,   *)
(* which holds what the configuration file lists under github_repos, in    *)
(* the file's order; a missing url is the empty string.  The loop calls    *)
(* clone_repo for one source after the other; the synchronisation of a     *)
(* source is the engine's steps above.                                     *)
(***************************************************************************)

MaxOutcomes == 2    \* length of the lists given to get_status_summary directly

GitHubSource(url, priority) ==
    [name |-> ExtractRepoInfo(url).repo_name, url |-> url, category |-> Category,
     priority |-> priority]

\* Configurations of github_repos: two different repositories, two
\* repositories of the same name under different owners, an entry without
\* url.
RegistryConfigs ==
    { <<GitHubSource(<<"org", "lib">>, "medium"), GitHubSource(<<"org", "repo">>, "high")>>,
      <<GitHubSource(<<"org", "repo">>, "high"), GitHubSource(<<"dev", "repo">>, "high")>>,
      <<GitHubSource(<<"org", "repo">>, "high"), GitHubSource(EmptyUrl, "medium")>> }

\* settings.REPOS_DIR
OutputDir == <<>>

\* SourceRegistry.get_github_categories()
GetGithubCategories == <<Category>>

GetGithubSourcesMutHighFirst(config, category, priority) ==
    IF category # Category THEN <<>>
    ELSE LET kept == IF priority = "None" THEN config
                     ELSE SelectSeq(config, LAMBDA src : src.priority = priority)
         IN SelectSeq(kept, LAMBDA src : src.priority = "high")
            \o SelectSeq(kept, LAMBDA src : src.priority # "high")

\* SourceRegistry.get_github_sources(category, priority)
GetGithubSources(config, category, priority) ==
    IF category # Category THEN <<>>
    ELSE IF priority = "None" THEN config
    ELSE SelectSeq(config, LAMBDA src : src.priority = priority)

\* all_sources: the sources of the categories to process, one category
\* after the other.
RECURSIVE CollectSources(_, _, _)
CollectSources(config, categories, priority) ==
    IF categories = <<>> THEN <<>>
    ELSE GetGithubSources(config, Head(categories), priority)
         \o CollectSources(config, Tail(categories), priority)

\* The asked-for categories the registry does not have.
InvalidCategories(categories) ==
    {categories[i] : i \in DOMAIN categories}
        \ {GetGithubCategories[i] : i \in DOMAIN GetGithubCategories}

IsSuccessMutOnlyCloned(status) == status = "cloned"

\* result.status in ["cloned", "updated"]
IsSuccess(status) == status \in {"cloned", "updated"}

\* `if result.error:` - None and the empty string are false.
Truthy(error) == error.some /\ error.text # <<>>

CountWhere(results, Test(_)) == Cardinality({i \in DOMAIN results : Test(results[i])})

\* The by_category / by_priority table over the values of one field.
TallyBy(results, field) ==
    [v \in {results[i][field] : i \in DOMAIN results} |->
        [success |-> CountWhere(results, LAMBDA r : r[field] = v /\ IsSuccess(r.status)),
         failed |-> CountWhere(results, LAMBDA r : r[field] = v /\ ~IsSuccess(r.status))]]

\* GitHubCloner.get_status_summary(results)
GetStatusSummary(results) ==
    LET withError == SelectSeq(results, LAMBDA r : Truthy(r.error))
    IN [total |-> Len(results),
        cloned |-> CountWhere(results, LAMBDA r : r.status = "cloned"),
        updated |-> CountWhere(results, LAMBDA r : r.status = "updated"),
        failed |-> CountWhere(results, LAMBDA r : r.status = "failed"),
        by_category |-> TallyBy(results, "category"),
        by_priority |-> TallyBy(results, "priority"),
        errors |-> [i \in DOMAIN withError |->
                       [repo |-> withError[i].name, error |-> withError[i].error.text]]]

\* What clone_all_repos hands to its caller.
ReturnsNone == [kind |-> "None", value |-> <<>>]
ReturnsTuple(results, summary) == [kind |-> "tuple", value |-> <<results, summary>>]
Raises == [kind |-> "raised", value |-> <<>>]

\* The RepoInfo clone_repo returns for a source: the engine's, with the
\* priority it was called with.
BatchResult(info, source) ==
    [name |-> info.name, url |-> info.url, local_path |-> info.local_path,
     category |-> info.category, priority |-> source.priority,
     status |-> info.status, error |-> info.error]

BatchPaths ==
    {LocalPath(c[i].url, Category) :
        c \in RegistryConfigs, i \in 1..2} \ {LocalPath(EmptyUrl, Category)}

\* The process has imported config.settings, which creates REPOS_DIR.
InitBatch ==
    /\ InitWith(<<>>, {1})
    /\ RetryAtRest
    /\ RestAtRest
    /\ stack = <<>>
    /\ run = NoRun
    /\ outcomes = <<>>
    /\ \E files \in [BatchPaths \cup {CategoryDir(Category)} -> {"absent", "old"}] :
          /\ \A p \in BatchPaths : Exists(files, p) => Exists(files, CategoryDir(Category))
          /\ fs = files @@ (OutputDir :> "old")

\* clone_all_repos(categories, priority_filter, dry_run) up to its loop.
CloneAllRepos(config, categories, priority_filter, dry_run) ==
    /\ batch.pc = "idle"
    /\ stack = <<>> /\ outcomes = <<>>
    /\ LET process_categories == IF categories # <<>> THEN categories ELSE GetGithubCategories
           all_sources == CollectSources(config, process_categories, priority_filter)
           called == [NoBatch EXCEPT !.config = config, !.priority_filter = priority_filter,
                                     !.dry_run = dry_run, !.before = fs]
       IN IF categories # <<>> /\ InvalidCategories(categories) # {}
             THEN /\ batch' = [called EXCEPT !.pc = "done", !.returned = ReturnsNone]
                  /\ fs' = fs
             ELSE /\ fs' = EnsureDir(fs, OutputDir)
                  /\ batch' = IF all_sources = <<>> \/ dry_run
                                 THEN [called EXCEPT !.pc = "done", !.returned = ReturnsNone,
                                                     !.sources = all_sources]
                                 ELSE [called EXCEPT !.pc = "loop", !.sources = all_sources,
                                                     !.idx = 1]
    /\ UNCHANGED <<stack, run, outcomes, summarised, limiterVars, retryVars, concVars,
                   dlVars, singletonVars>>

\* The loop calls cloner.clone_repo for the next source.
BatchCloneRepo ==
    /\ batch.pc = "loop"
    /\ batch.idx <= Len(batch.sources)
    /\ Len(outcomes) = batch.idx - 1
    /\ CallCloneRepo(batch.sources[batch.idx].url)

AbortsOnMutFailed(outcome) == outcome.kind = "raised" \/ outcome.info.status = "failed"

\* The loop has no try block: an exception of clone_repo ends
\* clone_all_repos, a returned RepoInfo of any status is appended.
AbortsOn(outcome) == outcome.kind = "raised"

\* clone_repo is back: results.append(result), or the exception passes on.
BatchCollect ==
    /\ batch.pc = "loop"
    /\ stack = <<>>
    /\ Len(outcomes) = batch.idx
    /\ LET o == outcomes[batch.idx]
       IN batch' = IF AbortsOn(o)
                      THEN [batch EXCEPT !.pc = "aborted", !.returned = Raises]
                      ELSE [batch EXCEPT !.idx = @ + 1,
                                         !.results = Append(@, BatchResult(o.info,
                                                                batch.sources[batch.idx]))]
    /\ UNCHANGED <<syncVars, summarised, limiterVars, retryVars, concVars, dlVars,
                   singletonVars>>

\* After the loop: the summary is made and printed, both are returned.
BatchSummary ==
    /\ batch.pc = "loop"
    /\ batch.idx > Len(batch.sources)
    /\ LET summary == GetStatusSummary(batch.results)
       IN batch' = [batch EXCEPT !.pc = "done", !.summary = summary,
                                 !.returned = ReturnsTuple(batch.results, summary)]
    /\ UNCHANGED <<syncVars, summarised, limiterVars, retryVars, concVars, dlVars,
                   singletonVars>>

NextBatch ==
    \/ \E config \in RegistryConfigs, categories \in {<<>>, <<Category>>, <<"bogus">>},
          priority_filter \in {"None", "high", "medium", "low"}, dry_run \in BOOLEAN :
            CloneAllRepos(config, categories, priority_filter, dry_run)
    \/ BatchCloneRepo
    \/ EnterCloneRepo
    \/ EnterUpdateRepo
    \/ \E res \in CloneResults : GitClone(res)
    \/ \E res \in PullResults : GitPull(res)
    \/ BatchCollect
    \/ BatchSummary

SpecBatch == InitBatch /\ [][NextBatch]_vars

----------------------------------------------------------------------------
(* Observations on the batch runner *)

\* The sources of a configuration that pass the priority filter, in the
\* configuration's order.
RECURSIVE FilterInOrder(_, _)
FilterInOrder(config, priority) ==
    IF config = <<>> THEN <<>>
    ELSE (IF priority = "None" \/ Head(config).priority = priority
             THEN <<Head(config)>> ELSE <<>>)
         \o FilterInOrder(Tail(config), priority)

BatchLooped == batch.pc \in {"loop", "aborted"} \/ batch.returned.kind = "tuple"

\* The git operation that decided the outcome failed.
FetchFailed(o) ==
    \/ o.run.clone \in {"nonzero", "timeout", "exception"}
    \/ o.run.pull = "exception"

\* C21: the batch runner syncs the sources that pass the filter in the
\* order of the configuration, whatever their priorities: the i-th result and
\* the i-th sync belong to the i-th such source, and a sync runs only when
\* every earlier sync has ended and its result is in the list.
C21_OrderPreserved ==
    BatchLooped =>
        /\ batch.sources = FilterInOrder(batch.config, batch.priority_filter)
        /\ Len(batch.results) <= Len(batch.sources)
        /\ \A i \in DOMAIN batch.results :
              /\ batch.results[i].url = batch.sources[i].url
              /\ batch.results[i].priority = batch.sources[i].priority
              /\ batch.results[i].status = StatusOf(outcomes[i])
        /\ \A i \in DOMAIN outcomes : outcomes[i].run.url = batch.sources[i].url
        /\ Running => /\ Len(outcomes) = Len(batch.results)
                      /\ run.url = batch.sources[Len(batch.results) + 1].url

C21_Witness ==
    /\ batch.returned.kind = "tuple"
    /\ Len(batch.results) = 2
    /\ batch.results[1].priority = "medium"
    /\ batch.results[2].priority = "high"

AllFailedSummary ==
    /\ batch.returned.kind = "tuple"
    /\ Len(batch.results) = 2
    /\ batch.summary.failed = 2

\* C23: a dry run changes nothing in the filesystem and returns the list of
\* the sources that pass the filter.
C23_DryRunReturnsList ==
    (batch.dry_run /\ batch.pc = "done" /\ batch.sources # <<>>) =>
        /\ fs = batch.before
        /\ outcomes = <<>>
        /\ batch.returned.kind # "None"
        /\ batch.returned.value = batch.sources

\* C24: the results of one batch have pairwise different local paths.
C24_OneOutcomePerPath ==
    \A i, j \in DOMAIN batch.results :
        i # j => batch.results[i].local_path # batch.results[j].local_path

\* The entries get_status_summary would make of the failed results, in order.
FailedEntries(results) ==
    LET failed == SelectSeq(results, LAMBDA r : r.status = "failed")
    IN [i \in DOMAIN failed |-> [repo |-> failed[i].name, error |-> failed[i].error.text]]

\* C25: the errors of the summary are one entry for each result with status
\* "failed", in the order of the results, and nothing else.
C25_ErrorsAreFailures ==
    batch.returned.kind = "tuple" =>
        /\ batch.summary.errors = FailedEntries(batch.results)
        /\ Len(batch.summary.errors) = batch.summary.failed

----------------------------------------------------------------------------
(* get_status_summary on its own: every list of up to MaxOutcomes results *)

\* The statuses a RepoInfo carries (the field's documented values, and the
\* only ones clone_repo and update_repo construct).
Statuses == {"cloned", "updated", "failed"}

SummaryCategories == {Category, "audits"}
SummaryPriorities == {"high", "medium"}

\* The error fields the engine gives a result of each status.
ErrorsOf(status) ==
    IF status = "failed" THEN {ErrText(<<>>), ErrText(<<"fatal">>)} ELSE {ErrNone}

SummaryInputs ==
    { [name |-> "repo", url |-> <<"org", "repo">>,
       local_path |-> LocalPath(<<"org", "repo">>, c),
       category |-> c, priority |-> p, status |-> st, error |-> e] :
          c \in SummaryCategories, p \in SummaryPriorities,
          st \in Statuses, e \in {ErrNone, ErrText(<<>>), ErrText(<<"fatal">>)} }

InitSummary ==
    /\ InitWith(<<>>, {1})
    /\ SyncAtRest
    /\ RetryAtRest
    /\ batch = NoBatch
    /\ ConcAtRest
    /\ DownloadsAtRest
    /\ SingletonAtRest
    /\ \E n \in 0..MaxOutcomes :
          \E results \in [1..n -> {r \in SummaryInputs : r.error \in ErrorsOf(r.status)}] :
              summarised = [results |-> results, made |-> FALSE, summary |-> <<>>]

\* cloner.get_status_summary(results)
Summarise ==
    /\ ~summarised.made
    /\ summarised' = [summarised EXCEPT !.made = TRUE,
                                        !.summary = GetStatusSummary(summarised.results)]
    /\ UNCHANGED <<limiterVars, syncVars, retryVars, batch, concVars, dlVars, singletonVars>>

NextSummary == Summarise

SpecSummary == InitSummary /\ [][NextSummary]_vars

\* The sum of one column of a by_category / by_priority table.
RECURSIVE SumColumn(_, _, _)
SumColumn(table, keys, column) ==
    IF keys = {} THEN 0
    ELSE LET k == CHOOSE x \in keys : TRUE
         IN table[k][column] + SumColumn(table, keys \ {k}, column)

ColumnTotal(table, column) == SumColumn(table, DOMAIN table, column)

\* C29: in every summary total = cloned + updated + failed, the success
\* counts of by_category, and those of by_priority, add up to
\* cloned + updated, and their failed counts add up to failed.
C29_SummaryTotals ==
    summarised.made =>
        LET sm == summarised.summary
        IN /\ sm.total = Len(summarised.results)
           /\ sm.total = sm.cloned + sm.updated + sm.failed
           /\ ColumnTotal(sm.by_category, "success") = sm.cloned + sm.updated
           /\ ColumnTotal(sm.by_category, "failed") = sm.failed
           /\ ColumnTotal(sm.by_priority, "success") = sm.cloned + sm.updated
           /\ ColumnTotal(sm.by_priority, "failed") = sm.failed

\* A summary over an updated and a failed result of different categories.
C29_Witness ==
    /\ summarised.made
    /\ Len(summarised.results) = 2
    /\ summarised.results[1].status = "updated"
    /\ summarised.results[2].status = "failed"
    /\ summarised.results[1].category # summarised.results[2].category
    /\ summarised.summary.by_category[Category].success + summarised.summary.by_category["audits"].failed = 2

----------------------------------------------------------------------------
(* The sync engine under interruption.  KeyboardInterrupt and SystemExit    *)
(* are not subclasses of Exception: no `except Exception` of clone_repo or  *)
(* update_repo catches them, and neither function has a finally block, so   *)
(* an interrupt between two steps ends the attempt where it stands.         *)

Interrupt ==
    /\ stack # <<>>
    /\ Finish([kind |-> "interrupted",
               info |-> [status |-> "KeyboardInterrupt", error |-> ErrNone],
               run |-> run, after |-> PathContent(fs, run.url)])
    /\ UNCHANGED <<fs, run, limiterVars, retryVars, restVars>>

NextInterrupt ==
    \/ \E u \in Urls : CallCloneRepo(u)
    \/ \E u \in Urls : CallUpdateRepo(u)
    \/ EnterCloneRepo
    \/ EnterUpdateRepo
    \/ \E res \in CloneResults : GitClone(res)
    \/ \E res \in PullResults : GitPull(res)
    \/ Interrupt

SpecInterrupt == InitSync /\ [][NextInterrupt]_vars

\* C27: an attempt on an existing local path that is interrupted between two
\* of its steps leaves the path as it was before the attempt or as a
\* complete fresh copy.
C27_InterruptLeavesOldOrNew ==
    \A i \in DOMAIN outcomes :
        (outcomes[i].kind = "interrupted" /\ outcomes[i].run.before # "absent") =>
            outcomes[i].after \in {outcomes[i].run.before, "cloned", "pulled"}

----------------------------------------------------------------------------
(* Concurrent sync attempts.  GitHubCloner holds no lock and keeps no      *)
(* record of the paths being worked on: threads that call clone_repo or    *)
(* update_repo interleave freely between their steps.  `stack` and `run`   *)
(* belong to the thread that is running; `attempts` holds the stack and    *)
(* the run of every other thread, and Switch hands the processor over.     *)

MaxSyncers == 2     \* threads that make one sync attempt each

\* Two repositories of one name: both resolve to the same local path.
SameNameUrls == {<<"org", "repo">>, <<"dev", "repo">>}

Parked(s, r) == [stack |-> s, run |-> r]

InitSyncers ==
    /\ InitWith(<<>>, {1})
    /\ RetryAtRest
    /\ BatchAtRest
    /\ DownloadsAtRest
    /\ SingletonAtRest
    /\ stack = <<>>
    /\ run = NoRun
    /\ outcomes = <<>>
    /\ attempts = [i \in 1..(MaxSyncers - 1) |-> Parked(<<>>, NoRun)]
    /\ fs \in [LocalPaths \cup {CategoryDir(Category)} -> {"absent", "old"}]
    /\ \A p \in LocalPaths : Exists(fs, p) => Exists(fs, CategoryDir(Category))

\* The scheduler runs another thread.
Switch(i) ==
    /\ i \in DOMAIN attempts
    /\ stack' = attempts[i].stack
    /\ run' = attempts[i].run
    /\ attempts' = [attempts EXCEPT ![i] = Parked(stack, run)]
    /\ UNCHANGED <<fs, outcomes, limiterVars, retryVars, batchVars, dlVars, singletonVars>>

\* The running thread starts its attempt.
SyncerCalls(fn, url) ==
    /\ run = NoRun
    /\ Invoke(fn, url)

\* git clone when another thread has put something at the path in the
\* meantime: git refuses a destination that exists and is not empty, and
\* leaves it as it is.
CloneRefused ==
    [kind : {"nonzero"}, text : {<<"fatal: destination path already exists", "\n">>},
     left : {"absent"}]

GitCloneOnto(res) ==
    /\ stack # <<>>
    /\ Top.fn = "clone_repo" /\ Top.pc = "git"
    /\ IF Exists(fs, LocalPath(run.url, Category))
          THEN /\ res \in CloneRefused
               /\ fs' = fs
               /\ run' = [run EXCEPT !.fetches = @ + 1, !.clone = res.kind]
               /\ Finish(ReturnedOutcome(CloneInfo(run.url, res), run', fs'))
               /\ UNCHANGED <<limiterVars, retryVars, restVars>>
          ELSE /\ res \in CloneResults
               /\ GitClone(res)

\* git pull when another thread has removed the path in the meantime:
\* `git -C path` cannot change into it and exits nonzero.
GitPullIn(res) ==
    /\ stack # <<>>
    /\ Exists(fs, LocalPath(run.url, Category)) \/ res.kind = "nonzero"
    /\ GitPull(res)

NextSyncers ==
    \/ \E i \in 1..(MaxSyncers - 1) : Switch(i)
    \/ \E u \in SameNameUrls : SyncerCalls("clone_repo", u)
    \/ \E u \in SameNameUrls : SyncerCalls("update_repo", u)
    \/ EnterCloneRepo
    \/ EnterUpdateRepo
    \/ \E res \in CloneResults \cup CloneRefused : GitCloneOnto(res)
    \/ \E res \in PullResults : GitPullIn(res)

SpecSyncers == InitSyncers /\ [][NextSyncers]_vars

\* A thread is between its existence check and its outcome, on path p.
InFlightOn(a, p) ==
    /\ a.stack # <<>>
    /\ \E i \in DOMAIN a.stack : a.stack[i].pc # "entry"
    /\ LocalPath(a.run.url, Category) = p

\* The running thread deletes its local path in this step.
DeleteStep ==
    /\ attempts' = attempts
    /\ ~run.deleted
    /\ run'.deleted

\* C26: a thread deletes a local path only when no other thread is between
\* its existence check of that path and its outcome.
C26_DeleteOnlyWhenAlone ==
    [][DeleteStep =>
          \A i \in DOMAIN attempts :
              ~InFlightOn(attempts[i], LocalPath(run.url, Category))]_vars

----------------------------------------------------------------------------
(* get_rate_limiter (crawlers/utils/rate_limiter.py): the module global    *)
(* _global_limiter is tested and assigned without a lock.  A thread can be *)
(* suspended between the test `_global_limiter is None`, the construction  *)
(* and assignment, and the final read of the global.  `instances` holds,   *)
(* for every RateLimiter constructed, the timestamp list of the one        *)
(* service the callers use, written as the sequence of the calling threads.*)

MaxLimited == 2     \* calls a thread records through the limiter it obtained

NoCaller == [pc |-> "idle", limiter |-> NoLimiter, recorded |-> 0]

InitSingleton ==
    /\ InitWith(<<>>, {1})
    /\ SyncAtRest
    /\ RetryAtRest
    /\ BatchAtRest
    /\ ConcAtRest
    /\ DownloadsAtRest
    /\ globalLimiter = NoLimiter
    /\ instances = <<>>
    /\ callers = [t \in 1..NThreads |-> NoCaller]

\* `if _global_limiter is None:`
TestGlobal(t) ==
    /\ callers[t].pc \in {"idle", "has"}
    /\ callers[t].recorded < MaxLimited
    /\ callers' = [callers EXCEPT ![t].pc = IF globalLimiter = NoLimiter
                                               THEN "create" ELSE "return"]
    /\ UNCHANGED <<globalLimiter, instances, limiterVars, syncVars, retryVars,
                   batchVars, concVars, dlVars>>

\* `_global_limiter = RateLimiter()`
CreateLimiter(t) ==
    /\ callers[t].pc = "create"
    /\ instances' = Append(instances, <<>>)
    /\ globalLimiter' = Len(instances) + 1
    /\ callers' = [callers EXCEPT ![t].pc = "return"]
    /\ UNCHANGED <<limiterVars, syncVars, retryVars, batchVars, concVars, dlVars>>

\* `return _global_limiter`
ReturnLimiter(t) ==
    /\ callers[t].pc = "return"
    /\ callers' = [callers EXCEPT ![t].pc = "has", ![t].limiter = globalLimiter]
    /\ UNCHANGED <<globalLimiter, instances, limiterVars, syncVars, retryVars,
                   batchVars, concVars, dlVars>>

\* `with limiter.limit(service):` on the instance the thread obtained: the
\* call is recorded in that instance's list.
LimitedCall(t) ==
    /\ callers[t].pc = "has"
    /\ callers[t].recorded < MaxLimited
    /\ instances' = [instances EXCEPT ![callers[t].limiter] = Append(@, t)]
    /\ callers' = [callers EXCEPT ![t].recorded = @ + 1]
    /\ UNCHANGED <<globalLimiter, limiterVars, syncVars, retryVars,
                   batchVars, concVars, dlVars>>

NextSingleton ==
    \/ \E t \in 1..NThreads : TestGlobal(t)
    \/ \E t \in 1..NThreads : CreateLimiter(t)
    \/ \E t \in 1..NThreads : ReturnLimiter(t)
    \/ \E t \in 1..NThreads : LimitedCall(t)

SpecSingleton == InitSingleton /\ [][NextSingleton]_vars

\* C30: the threads that have obtained a limiter hold the same instance, and
\* all recorded calls are in one list.
C30_OneSharedInstance ==
    /\ \A t, u \in DOMAIN callers :
          (callers[t].pc = "has" /\ callers[u].pc = "has") =>
              callers[t].limiter = callers[u].limiter
    /\ Cardinality({i \in DOMAIN instances : instances[i] # <<>>}) <= 1

----------------------------------------------------------------------------
(* Dataset downloads: KaggleDownloader.download_dataset and                *)
(* HuggingFaceDownloader.download_dataset.  A dataset id is a sequence of  *)
(* pieces of text; "/" separates the owner from the name.  `dsets` is the  *)
(* content of the two output directories: for every dataset directory      *)
(* whether it exists and holds the marker .download_complete, and, as an   *)
(* observation, the ids whose download has completed into it since it was  *)
(* last deleted.                                                           *)

MaxDownloads == 2   \* calls of download_dataset

Downloaders == {"kaggle", "huggingface"}

\* An owner/name id, a name without owner that holds an underscore (as the
\* canonical HuggingFace datasets do), and an unrelated id.
DatasetIds == {<<"ag", "/", "news">>, <<"ag", "_", "news">>, <<"org", "/", "data">>}

\* dataset_id.replace("/", "_")
ReplaceSlash(id) == [i \in DOMAIN id |-> IF id[i] = "/" THEN "_" ELSE id[i]]

\* re.sub(r'[<>:"/\\|?*]', "_", name)
InvalidChars == {"<", ">", ":", "\"", "/", "\\", "|", "?", "*"}

RECURSIVE StripDots(_)
StripDots(name) ==
    IF name = <<>> THEN <<>>
    ELSE IF Head(name) \in {".", " "} THEN StripDots(Tail(name))
    ELSE IF name[Len(name)] \in {".", " "} THEN StripDots(SubSeq(name, 1, Len(name) - 1))
    ELSE name

\* sanitize_filename(name); the cut at 255 characters is beyond these names.
SanitizeFilename(name) ==
    StripDots([i \in DOMAIN name |-> IF name[i] \in InvalidChars THEN "_" ELSE name[i]])

\* self.output_dir / sanitize_filename(dataset_id.replace("/", "_"))
DatasetDir(downloader, id) == <<downloader>> \o SanitizeFilename(ReplaceSlash(id))

DatasetDirs == {DatasetDir(d, id) : d \in Downloaders, id \in DatasetIds}

NoDir == [exists |-> FALSE, marker |-> FALSE, completed |-> {}]

\* shutil.rmtree(dataset_dir)
RmDataset(dirs, dir) == [dirs EXCEPT ![dir] = NoDir]

\* ensure_dir(dataset_dir)
MkDataset(dirs, dir) == [dirs EXCEPT ![dir].exists = TRUE]

\* marker_file.touch() after the download of id
TouchMarker(dirs, dir, id) ==
    [dirs EXCEPT ![dir].marker = TRUE, ![dir].completed = @ \cup {id}]

InitDownloads ==
    /\ InitWith(<<>>, {1})
    /\ SyncAtRest
    /\ RetryAtRest
    /\ BatchAtRest
    /\ ConcAtRest
    /\ SingletonAtRest
    /\ dsets = [dir \in DatasetDirs |-> NoDir]
    /\ dl = NoDownload
    /\ dlLog = <<>>

LogEntry(call, result) ==
    [downloader |-> call.downloader, id |-> call.id, force |-> call.force,
     dir |-> call.dir, remote |-> call.remote, limited |-> call.limited,
     result |-> result]

\* download_dataset up to its try block: resolve the directory (deleting it
\* first under force), then return at once when the marker is there and
\* force is off.
CallDownloadDataset(downloader, id, force, streaming) ==
    /\ dl.pc = "idle"
    /\ Len(dlLog) < MaxDownloads
    /\ downloader = "kaggle" => ~streaming
    /\ LET dir == DatasetDir(downloader, id)
           cleared == IF force /\ dsets[dir].exists THEN RmDataset(dsets, dir) ELSE dsets
           made == MkDataset(cleared, dir)
           call == [NoDownload EXCEPT !.downloader = downloader, !.id = id, !.force = force,
                                      !.streaming = streaming, !.dir = dir]
       IN /\ dsets' = made
          /\ IF made[dir].marker /\ ~force
                THEN /\ dl' = NoDownload
                     /\ dlLog' = Append(dlLog, LogEntry(call, "already downloaded"))
                ELSE /\ dl' = [call EXCEPT !.pc = "download"]
                     /\ dlLog' = dlLog
    /\ UNCHANGED <<limiterVars, syncVars, retryVars, batchVars, concVars, singletonVars>>

\* The try block: one call under self.rate_limiter.limit(SERVICE_NAME) to
\* the kaggle / hf command or to datasets.load_dataset.  When it succeeds
\* the marker is written, except in streaming mode; when it raises, the
\* exception is logged and raised again.
RemoteResults == {"ok", "error"}

Download(res) ==
    /\ dl.pc = "download"
    /\ LET call == [dl EXCEPT !.remote = @ + 1, !.limited = @ + 1]
       IN /\ dsets' = IF res = "ok" /\ ~dl.streaming
                         THEN TouchMarker(dsets, dl.dir, dl.id) ELSE dsets
          /\ dlLog' = Append(dlLog, LogEntry(call, IF res = "ok" THEN "returned" ELSE "raised"))
    /\ dl' = NoDownload
    /\ UNCHANGED <<limiterVars, syncVars, retryVars, batchVars, concVars, singletonVars>>

NextDownloads ==
    \/ \E d \in Downloaders, id \in DatasetIds, force \in BOOLEAN, streaming \in BOOLEAN :
          CallDownloadDataset(d, id, force, streaming)
    \/ \E res \in RemoteResults : Download(res)

SpecDownloads == InitDownloads /\ [][NextDownloads]_vars

\* C28: the marker is in a dataset's directory only if a download of that
\* dataset has completed since the directory was last deleted, and a call
\* without force that finds the marker makes no remote call, records no
\* limiter call and returns the dataset's directory.
C28_MarkerMeansCompleted ==
    /\ \A d \in Downloaders, id \in DatasetIds :
          dsets[DatasetDir(d, id)].marker => id \in dsets[DatasetDir(d, id)].completed
    /\ \A i \in DOMAIN dlLog :
          dlLog[i].result = "already downloaded" =>
              /\ ~dlLog[i].force
              /\ dlLog[i].remote = 0
              /\ dlLog[i].limited = 0
              /\ dlLog[i].dir = DatasetDir(dlLog[i].downloader, dlLog[i].id)

====
